---- MODULE Spec2Model ----
(***************************************************************************)
(* State-machine model of the two Icinga/Nagios plugins                    *)
(*   src/check_synology_cpu.py     (CPU load, UCD-SNMP-MIB)                *)
(*   src/check_synology_system.py  (system health, SYNOLOGY-SYSTEM-MIB)    *)
(* One behaviour is one invocation of one plugin: the SNMP walk of         *)
(* get_snmp_table, the emptiness test, the extraction loop, the            *)
(* evaluation and the call of exit_plugin.                                 *)
(*                                                                         *)
(* Representation.                                                         *)
(*  - A Python str that the plugin builds by concatenation is a sequence   *)
(*    of string tokens; concatenation is \o.                               *)
(*  - The float thresholds --warn/--crit are fixed-point numbers with      *)
(*    denominator Scale: the threshold t stands for t / Scale.             *)
(*  - The local variables of main() are a function whose DOMAIN is the set *)
(*    of names bound so far; reading an unbound name raises                *)
(*    UnboundLocalError.                                                   *)
(*  - An uncaught exception ends the interpreter with exit status 1 and    *)
(*    nothing more on stdout.                                              *)
(*  - The SNMP agent answers the walk in increasing OID order; the bulkCmd *)
(*    iterator ends after it has reported an error.                        *)
(***************************************************************************)
EXTENDS Integers, Sequences, FiniteSets, TLC

VARIABLES
    check,      \* which plugin runs: "cpu" or "system"
    warn, crit, \* args.warn, args.crit (fixed point, see Scale)
    walkpos,    \* position of the agent in its MIB
    iterOpen,   \* the bulkCmd iterator can still yield
    table,      \* the list get_snmp_table builds and returns
    stdout,     \* the lines printed so far
    pc,         \* where main() is
    locals,     \* the metric variables of main() bound so far
    exc,        \* the uncaught exception, "" if none
    output, perfdata, returncode,  \* the locals of main() of these names
    exitcode,   \* exit status of the process, -1 while it runs
    call,       \* arguments of the last call of exit_plugin, <<>> if none
    trace,      \* history: the steps taken (errors, extract, compare)
    arm         \* history: arm of the temperature if/elif entered

vars == <<check, warn, crit, walkpos, iterOpen, table, stdout, pc, locals,
          exc, output, perfdata, returncode, exitcode, call, trace, arm>>

(* ------------------------------ bounds --------------------------------- *)

\* CPU percentages reported by the agent range over 0..MaxLoad
MaxLoad == 2
\* temperatures reported by the agent range over 0..MaxTemp
MaxTemp == 1
\* thresholds range over 1/Scale .. MaxThresh/Scale
MaxThresh == 3

\* denominator of the fixed-point representation of the float thresholds
Scale == 2

Thresholds == 1..MaxThresh

(* --------------------------- Python built-ins -------------------------- *)

\* str(n) for an int n
str(n) == ToString(n)

\* the integers whose decimal form the model can meet
IntRange == 0..(MaxLoad + MaxTemp + 2)

\* does int(s) succeed on the string s
IsIntLiteral(s) == \E n \in IntRange : str(n) = s

\* int(s) for a str s holding a decimal literal
int(s) == CHOOSE n \in IntRange : str(n) = s

\* int(t) for a float t: truncation towards zero
intOfFloat(t) == IF t >= 0 THEN t \div Scale ELSE -((-t) \div Scale)

\* str(t) for a float t >= 0 (Scale = 2: the fraction is .0 or .5)
strOfFloat(t) == ToString(t \div Scale) \o (IF t % Scale = 0 THEN ".0" ELSE ".5")

\* n >= t for an int n and a float t
GeFloat(n, t) == n * Scale >= t

(* ------------------------------ the agent ------------------------------ *)

Loads == {str(n) : n \in 0..MaxLoad}
Temps == {str(n) : n \in 0..MaxTemp}

\* The objects the agent can return under each root, in walk order, each
\* with the values it can take.
CpuMib == << <<"1.3.6.1.4.1.2021.11.2.0",   {"systemStats"}>>,
             <<"1.3.6.1.4.1.2021.11.9.0",   Loads>>,
             <<"1.3.6.1.4.1.2021.11.9.0.1", {"2"}>>,
             <<"1.3.6.1.4.1.2021.11.10.0",  Loads>>,
             <<"1.3.6.1.4.1.2021.11.11.0",  {"0", str(MaxLoad)}>> >>

SysMib == << <<"1.3.6.1.4.1.6574.1.1.0",   {"1", "2"}>>,
             <<"1.3.6.1.4.1.6574.1.2.0",   Temps>>,
             <<"1.3.6.1.4.1.6574.1.3.0",   {"1", "2"}>>,
             <<"1.3.6.1.4.1.6574.1.4.1.0", {"1", "2"}>>,
             <<"1.3.6.1.4.1.6574.1.4.2.0", {"1", "2"}>>,
             <<"1.3.6.1.4.1.6574.1.5.1.0", {"DS"}>>,
             <<"1.3.6.1.4.1.6574.1.5.4.0", {"0", "1"}>> >>

Mib(c) == IF c = "cpu" THEN CpuMib ELSE SysMib

\* transport-level failures the iterator reports as error_indication
ErrorIndications == {"No SNMP response received before timeout"}

\* protocol-level failure the iterator reports as error_status
ErrorStatus == "noSuchName at ?"

(* ------------------------------ exit_plugin ---------------------------- *)

\* Variant of exit_plugin: the UNKNOWN arm prints its line and lacks the
\* sys.exit(3), so the call returns to main.
exit_plugin_unknown_returns(rc, out, perf) ==
    IF rc = "3"
    THEN [line |-> <<"UNKNOWN - ">> \o out, code |-> 3, exits |-> FALSE]
    ELSE IF rc = "2"
    THEN [line |-> <<"CRITICAL - ">> \o out \o <<" | ">> \o perf,
          code |-> 2, exits |-> TRUE]
    ELSE IF rc = "1"
    THEN [line |-> <<"WARNING - ">> \o out \o <<" | ">> \o perf,
          code |-> 1, exits |-> TRUE]
    ELSE IF rc = "0"
    THEN [line |-> <<"OK - ">> \o out \o <<" | ">> \o perf,
          code |-> 0, exits |-> TRUE]
    ELSE [line |-> <<>>, code |-> 0, exits |-> FALSE]

\* Variant of exit_plugin: the WARNING arm ends the process with status 2.
exit_plugin_warning_exits_2(rc, out, perf) ==
    IF rc = "3"
    THEN [line |-> <<"UNKNOWN - ">> \o out, code |-> 3, exits |-> TRUE]
    ELSE IF rc = "2"
    THEN [line |-> <<"CRITICAL - ">> \o out \o <<" | ">> \o perf,
          code |-> 2, exits |-> TRUE]
    ELSE IF rc = "1"
    THEN [line |-> <<"WARNING - ">> \o out \o <<" | ">> \o perf,
          code |-> 2, exits |-> TRUE]
    ELSE IF rc = "0"
    THEN [line |-> <<"OK - ">> \o out \o <<" | ">> \o perf,
          code |-> 0, exits |-> TRUE]
    ELSE [line |-> <<>>, code |-> 0, exits |-> FALSE]

\* What a call of exit_plugin does: the line it prints (<<>> if none), the
\* status it passes to sys.exit, and whether it ends the process at all (with
\* a return code that matches none of the four tests it returns None).
exit_plugin(rc, out, perf) ==
    IF rc = "3"
    THEN [line |-> <<"UNKNOWN - ">> \o out, code |-> 3, exits |-> TRUE]
    ELSE IF rc = "2"
    THEN [line |-> <<"CRITICAL - ">> \o out \o <<" | ">> \o perf,
          code |-> 2, exits |-> TRUE]
    ELSE IF rc = "1"
    THEN [line |-> <<"WARNING - ">> \o out \o <<" | ">> \o perf,
          code |-> 1, exits |-> TRUE]
    ELSE IF rc = "0"
    THEN [line |-> <<"OK - ">> \o out \o <<" | ">> \o perf,
          code |-> 0, exits |-> TRUE]
    ELSE [line |-> <<>>, code |-> 0, exits |-> FALSE]

(* ------------------------------ extraction ----------------------------- *)

\* name = int(raw) inside the extraction loop
Assign(st, name, raw) ==
    IF IsIntLiteral(raw)
    THEN [locals |-> (name :> int(raw)) @@ st.locals, exc |-> st.exc]
    ELSE [locals |-> st.locals, exc |-> "ValueError"]

\* Variant of CpuExtractEntry: the user OID is matched as a prefix of the
\* entry's OID (startswith) instead of by equality.
CpuExtractEntryStartswith(st, i) ==
    IF i[1] \in {"1.3.6.1.4.1.2021.11.9.0", "1.3.6.1.4.1.2021.11.9.0.1"}
    THEN Assign(st, "cpuload_user", i[2])
    ELSE IF i[1] = "1.3.6.1.4.1.2021.11.10.0"
    THEN Assign(st, "cpuload_system", i[2])
    ELSE IF i[1] = "1.3.6.1.4.1.2021.11.11.0"
    THEN Assign(st, "cpuload_idle", i[2])
    ELSE st

\* one iteration of the extraction loop of the CPU check
CpuExtractEntry(st, i) ==
    IF i[1] = "1.3.6.1.4.1.2021.11.9.0" THEN Assign(st, "cpuload_user", i[2])
    ELSE IF i[1] = "1.3.6.1.4.1.2021.11.10.0"
    THEN Assign(st, "cpuload_system", i[2])
    ELSE IF i[1] = "1.3.6.1.4.1.2021.11.11.0"
    THEN Assign(st, "cpuload_idle", i[2])
    ELSE st

\* one iteration of the extraction loop of the system-health check
SysExtractEntry(st, i) ==
    IF i[1] = "1.3.6.1.4.1.6574.1.1.0" THEN Assign(st, "systemStatus", i[2])
    ELSE IF i[1] = "1.3.6.1.4.1.6574.1.2.0"
    THEN Assign(st, "temperature", i[2])
    ELSE IF i[1] = "1.3.6.1.4.1.6574.1.3.0"
    THEN Assign(st, "powerStatus", i[2])
    ELSE IF i[1] = "1.3.6.1.4.1.6574.1.4.1.0"
    THEN Assign(st, "systemFanStatus", i[2])
    ELSE IF i[1] = "1.3.6.1.4.1.6574.1.4.2.0"
    THEN Assign(st, "cpuFanStatus", i[2])
    ELSE IF i[1] = "1.3.6.1.4.1.6574.1.5.4.0"
    THEN Assign(st, "upgradeAvailable", i[2])
    ELSE st

ExtractEntry(c, st, i) ==
    IF c = "cpu" THEN CpuExtractEntry(st, i) ELSE SysExtractEntry(st, i)

\* the whole extraction loop: the entries in order, stopping at an exception
RECURSIVE ExtractLoop(_, _, _)
ExtractLoop(c, st, tbl) ==
    IF tbl = <<>> \/ st.exc # "" THEN st
    ELSE ExtractLoop(c, ExtractEntry(c, st, Head(tbl)), Tail(tbl))

NoLocals == [n \in {} |-> 0]

Extract(c, tbl) == ExtractLoop(c, [locals |-> NoLocals, exc |-> ""], tbl)

(* ------------------------- evaluation: CPU load ------------------------ *)

CpuNames == {"cpuload_user", "cpuload_system", "cpuload_idle"}

\* the two threshold comparisons of the CPU check and the return code they set
CpuReturnCode(combined, w, c) ==
    IF combined >= intOfFloat(c) THEN "2"
    ELSE IF combined >= intOfFloat(w) THEN "1"
    ELSE "0"

\* main of the CPU check from the combined load to the return code
CpuEvaluate(l, w, c) ==
    IF ~(CpuNames \subseteq DOMAIN l)
    THEN [exc |-> "UnboundLocalError", output |-> <<>>, perfdata |-> <<>>,
          returncode |-> "", arm |-> "none", compared |-> FALSE]
    ELSE LET cpuload_combined == l["cpuload_user"] + l["cpuload_system"]
         IN  [exc |-> "",
              output |-> <<"System: ", str(l["cpuload_system"]), "%, User: ",
                           str(l["cpuload_user"]), "%, Idle: ",
                           str(l["cpuload_idle"]), "% ">>,
              perfdata |-> <<"'system'=", str(l["cpuload_system"]), "%;",
                             strOfFloat(w), ";", strOfFloat(c), ";0;100 ",
                             "'user'=", str(l["cpuload_user"]), "%;",
                             strOfFloat(w), ";", strOfFloat(c), ";0;100 ",
                             "'idle'=", str(l["cpuload_idle"]), "%;;;;">>,
              returncode |-> CpuReturnCode(cpuload_combined, w, c),
              arm |-> "none", compared |-> TRUE]

(* ----------------------- evaluation: system health --------------------- *)

BinaryNames == {"systemStatus", "powerStatus", "systemFanStatus",
                "cpuFanStatus", "upgradeAvailable"}
HardwareNames == {"systemStatus", "powerStatus", "systemFanStatus",
                  "cpuFanStatus"}
SysNames == BinaryNames \cup {"temperature"}

\* ''.join(s) for one str s: the characters of s joined again
join(s) == <<s>>

\* ''.join(a, b, c): str.join takes exactly one argument
joinArgs(a, b, c) == [exc |-> "TypeError", val |-> <<>>]

\* the five tests of the binary metrics
SysBinary(l) ==
    IF ~(BinaryNames \subseteq DOMAIN l)
    THEN [exc |-> "UnboundLocalError", output |-> <<>>,
          returnwarn |-> FALSE, returncrit |-> FALSE]
    ELSE [exc |-> "",
          output |->
              (IF l["systemStatus"] = 2
                  THEN join("System partition failed. ") ELSE <<>>)
           \o (IF l["powerStatus"] = 2
                  THEN join("Power supply failed. ") ELSE <<>>)
           \o (IF l["systemFanStatus"] = 2
                  THEN join("System fan failed. ") ELSE <<>>)
           \o (IF l["cpuFanStatus"] = 2
                  THEN join("CPU fan failed. ") ELSE <<>>)
           \o (IF l["upgradeAvailable"] = 1
                  THEN join("DSM update available. ") ELSE <<>>),
          returnwarn |-> l["upgradeAvailable"] = 1,
          returncrit |-> \E n \in HardwareNames : l[n] = 2]

\* Variant of SysTemperature: the crit test comes first (crit overrides warn).
SysTemperatureCritFirst(b, l, w, c) ==
    IF "temperature" \notin DOMAIN l
    THEN [b EXCEPT !.exc = "UnboundLocalError"] @@
         [arm |-> "none", compared |-> FALSE]
    ELSE LET phrase == joinArgs("Temperature: ", str(l["temperature"]),
                                " degrees. ")
         IN  IF GeFloat(l["temperature"], c)
             THEN [exc |-> phrase.exc,
                   output |-> b.output \o phrase.val,
                   returnwarn |-> b.returnwarn,
                   returncrit |-> IF phrase.exc = "" THEN TRUE
                                  ELSE b.returncrit,
                   arm |-> "crit", compared |-> TRUE]
             ELSE IF GeFloat(l["temperature"], w)
             THEN [exc |-> phrase.exc,
                   output |-> b.output \o phrase.val,
                   returnwarn |-> IF phrase.exc = "" THEN TRUE
                                  ELSE b.returnwarn,
                   returncrit |-> b.returncrit,
                   arm |-> "warn", compared |-> TRUE]
             ELSE b @@ [arm |-> "none", compared |-> TRUE]

\* the if/elif on the temperature, entered with the result b of SysBinary
SysTemperature(b, l, w, c) ==
    IF "temperature" \notin DOMAIN l
    THEN [b EXCEPT !.exc = "UnboundLocalError"] @@
         [arm |-> "none", compared |-> FALSE]
    ELSE LET phrase == joinArgs("Temperature: ", str(l["temperature"]),
                                " degrees. ")
         IN  IF GeFloat(l["temperature"], w)
             THEN [exc |-> phrase.exc,
                   output |-> b.output \o phrase.val,
                   returnwarn |-> IF phrase.exc = "" THEN TRUE
                                  ELSE b.returnwarn,
                   returncrit |-> b.returncrit,
                   arm |-> "warn", compared |-> TRUE]
             ELSE IF GeFloat(l["temperature"], c)
             THEN [exc |-> phrase.exc,
                   output |-> b.output \o phrase.val,
                   returnwarn |-> b.returnwarn,
                   returncrit |-> IF phrase.exc = "" THEN TRUE
                                  ELSE b.returncrit,
                   arm |-> "crit", compared |-> TRUE]
             ELSE b @@ [arm |-> "none", compared |-> TRUE]

\* Variant of SysReturnCode: the else arm leaves the text as accumulated.
SysReturnCodeKeepsText(returnwarn, returncrit, out) ==
    IF returnwarn THEN [returncode |-> "1", output |-> out]
    ELSE IF returncrit THEN [returncode |-> "2", output |-> out]
    ELSE [returncode |-> "0", output |-> out]

\* the if/elif/else that sets the return code and the OK text
SysReturnCode(returnwarn, returncrit, out) ==
    IF returnwarn THEN [returncode |-> "1", output |-> out]
    ELSE IF returncrit THEN [returncode |-> "2", output |-> out]
    ELSE [returncode |-> "0", output |-> join("System is OK.")]

\* main of the system-health check from the flags to the return code
SysEvaluate(l, w, c) ==
    LET b == SysBinary(l) IN
    IF b.exc # ""
    THEN [exc |-> b.exc, output |-> <<>>, perfdata |-> <<>>,
          returncode |-> "", arm |-> "none", compared |-> FALSE]
    ELSE LET t == SysTemperature(b, l, w, c) IN
         IF t.exc # ""
         THEN [exc |-> t.exc, output |-> t.output, perfdata |-> <<>>,
               returncode |-> "", arm |-> t.arm, compared |-> t.compared]
         ELSE LET r == SysReturnCode(t.returnwarn, t.returncrit, t.output)
              IN  [exc |-> "", output |-> r.output,
                   perfdata |-> <<"'temperature'=", str(l["temperature"]),
                                  ";", strOfFloat(w), ";", strOfFloat(c),
                                  ";; ">>,
                   returncode |-> r.returncode,
                   arm |-> t.arm, compared |-> t.compared]

Evaluate(ck, l, w, c) ==
    IF ck = "cpu" THEN CpuEvaluate(l, w, c) ELSE SysEvaluate(l, w, c)

(* -------------------------------- main --------------------------------- *)

\* stdout after a call that printed the line ln, or nothing if ln is empty
Print1(out, ln) == IF ln = <<>> THEN out ELSE Append(out, ln)

\* an uncaught exception: traceback on stderr, exit status 1
Uncaught(printed, e) == [exc |-> e, lines |-> printed, code |-> 1]

\* main() after the emptiness test, with the lines main() printed before
mainRest(ck, tbl, w, c, printed) ==
    LET st == Extract(ck, tbl) IN
    IF st.exc # "" THEN Uncaught(printed, st.exc)
    ELSE LET ev == Evaluate(ck, st.locals, w, c) IN
         IF ev.exc # "" THEN Uncaught(printed, ev.exc)
         ELSE LET r == exit_plugin(ev.returncode, ev.output, ev.perfdata)
              IN  [exc |-> "", lines |-> Print1(printed, r.line),
                   code |-> IF r.exits THEN r.code ELSE 0]

\* main() from the returned table to the end of the process: the lines it
\* prints, the exit status and the uncaught exception if any
main(ck, tbl, w, c) ==
    IF Len(tbl) = 0
    THEN LET r == exit_plugin("3", <<"No data returned via SNMP">>,
                              <<"NULL">>)
         IN  IF r.exits
             THEN [exc |-> "", lines |-> Print1(<<>>, r.line), code |-> r.code]
             ELSE mainRest(ck, tbl, w, c, Print1(<<>>, r.line))
    ELSE mainRest(ck, tbl, w, c, <<>>)

(* ------------------------------- actions ------------------------------- *)

Init ==
    /\ check \in {"cpu", "system"}
    /\ warn \in Thresholds
    /\ crit \in Thresholds
    /\ walkpos = 0
    /\ iterOpen = TRUE
    /\ table = <<>>
    /\ stdout = <<>>
    /\ pc = "walk"
    /\ locals = NoLocals
    /\ exc = ""
    /\ output = <<>>
    /\ perfdata = <<>>
    /\ returncode = ""
    /\ exitcode = -1
    /\ call = <<>>
    /\ trace = <<>>
    /\ arm = "none"

\* get_snmp_table: the iterator yields a row, which is appended to the table
WalkRow ==
    /\ pc = "walk" /\ iterOpen
    /\ \E j \in (walkpos + 1)..Len(Mib(check)) :
         \E v \in Mib(check)[j][2] :
            /\ table' = Append(table, <<Mib(check)[j][1], v>>)
            /\ walkpos' = j
    /\ UNCHANGED <<check, warn, crit, iterOpen, stdout, pc, locals, exc,
                   output, perfdata, returncode, exitcode, call, trace, arm>>

\* get_snmp_table: the iterator yields an error_indication, which is printed
WalkErrorIndication ==
    /\ pc = "walk" /\ iterOpen
    /\ \E e \in ErrorIndications : stdout' = Append(stdout, <<e>>)
    /\ iterOpen' = FALSE
    /\ trace' = Append(trace, "error_indication")
    /\ UNCHANGED <<check, warn, crit, walkpos, table, pc, locals, exc,
                   output, perfdata, returncode, exitcode, call, arm>>

\* get_snmp_table: the iterator yields an error_status, which is printed
WalkErrorStatus ==
    /\ pc = "walk" /\ iterOpen
    /\ stdout' = Append(stdout, <<ErrorStatus>>)
    /\ iterOpen' = FALSE
    /\ trace' = Append(trace, "error_status")
    /\ UNCHANGED <<check, warn, crit, walkpos, table, pc, locals, exc,
                   output, perfdata, returncode, exitcode, call, arm>>

\* get_snmp_table: the iterator is exhausted and the table is returned
WalkReturn ==
    /\ pc = "walk"
    /\ pc' = "check"
    /\ UNCHANGED <<check, warn, crit, walkpos, iterOpen, table, stdout,
                   locals, exc, output, perfdata, returncode, exitcode,
                   call, trace, arm>>

\* main: if len(table) == 0: exit_plugin("3", "No data returned via SNMP", "NULL")
CheckEmpty ==
    /\ pc = "check"
    /\ IF Len(table) = 0
       THEN LET r == exit_plugin("3", <<"No data returned via SNMP">>,
                                 <<"NULL">>)
            IN  /\ call' = <<"3", <<"No data returned via SNMP">>, <<"NULL">> >>
                /\ stdout' = Print1(stdout, r.line)
                /\ IF r.exits
                   THEN pc' = "exited" /\ exitcode' = r.code
                   ELSE pc' = "extract" /\ UNCHANGED exitcode
       ELSE /\ pc' = "extract"
            /\ UNCHANGED <<stdout, exitcode, call>>
    /\ UNCHANGED <<check, warn, crit, walkpos, iterOpen, table, locals, exc,
                   output, perfdata, returncode, trace, arm>>

\* main: the extraction loop over the table
ExtractMetrics ==
    /\ pc = "extract"
    /\ LET st == Extract(check, table)
       IN  /\ locals' = st.locals
           /\ exc' = st.exc
           /\ IF st.exc # ""
              THEN pc' = "exited" /\ exitcode' = 1
              ELSE pc' = "evaluate" /\ UNCHANGED exitcode
    /\ trace' = Append(trace, "extract")
    /\ UNCHANGED <<check, warn, crit, walkpos, iterOpen, table, stdout,
                   output, perfdata, returncode, call, arm>>

\* main: from the end of the extraction loop to the call of exit_plugin
EvaluateMetrics(ck) ==
    /\ pc = "evaluate" /\ check = ck
    /\ LET r == Evaluate(ck, locals, warn, crit)
       IN  /\ exc' = r.exc
           /\ output' = r.output
           /\ perfdata' = r.perfdata
           /\ returncode' = r.returncode
           /\ arm' = r.arm
           /\ trace' = IF r.compared THEN Append(trace, "compare") ELSE trace
           /\ IF r.exc # ""
              THEN pc' = "exited" /\ exitcode' = 1
              ELSE pc' = "report" /\ UNCHANGED exitcode
    /\ UNCHANGED <<check, warn, crit, walkpos, iterOpen, table, stdout,
                   locals, call>>

CpuEvaluateMetrics == EvaluateMetrics("cpu")
SysEvaluateMetrics == EvaluateMetrics("system")

\* main: exit_plugin(returncode, output, perfdata)
Report ==
    /\ pc = "report"
    /\ LET r == exit_plugin(returncode, output, perfdata)
       IN  /\ stdout' = Print1(stdout, r.line)
           /\ exitcode' = IF r.exits THEN r.code ELSE 0
    /\ call' = <<returncode, output, perfdata>>
    /\ pc' = "exited"
    /\ UNCHANGED <<check, warn, crit, walkpos, iterOpen, table, locals, exc,
                   output, perfdata, returncode, trace, arm>>

Next ==
    \/ WalkRow
    \/ WalkErrorIndication
    \/ WalkErrorStatus
    \/ WalkReturn
    \/ CheckEmpty
    \/ ExtractMetrics
    \/ CpuEvaluateMetrics
    \/ SysEvaluateMetrics
    \/ Report

Spec == Init /\ [][Next]_vars

TypeOK ==
    /\ check \in {"cpu", "system"}
    /\ pc \in {"walk", "check", "extract", "evaluate", "report", "exited"}
    /\ exitcode \in -1..3
    /\ (pc = "exited") = (exitcode # -1)

(* ------------------------- vocabulary of the claims -------------------- *)

Exited == pc = "exited"

InTrace(x) == \E k \in DOMAIN trace : trace[k] = x

Contains(seq, x) == \E k \in DOMAIN seq : seq[k] = x

LastLine == stdout[Len(stdout)]

StatusWords == {"OK - ", "WARNING - ", "CRITICAL - ", "UNKNOWN - "}

\* the lines of stdout that are status lines
StatusLines == {k \in DOMAIN stdout : Head(stdout[k]) \in StatusWords}

\* the run ended in exit_plugin with this status word and exit status
Reported(word, code) ==
    /\ Exited /\ exc = "" /\ call # <<>>
    /\ Len(stdout) > 0 /\ Head(LastLine) = word
    /\ exitcode = code

\* the metrics required by the evaluator of the running check
Required == IF check = "cpu" THEN CpuNames ELSE SysNames

\* the extraction loop has run and bound every required metric
AllExtracted == InTrace("extract") /\ Required \subseteq DOMAIN locals

FailurePhrase(n) ==
    IF n = "systemStatus" THEN "System partition failed. "
    ELSE IF n = "powerStatus" THEN "Power supply failed. "
    ELSE IF n = "systemFanStatus" THEN "System fan failed. "
    ELSE "CPU fan failed. "

NoHardwareFailure == \A n \in HardwareNames : locals[n] # 2

TemperaturePerfdata ==
    <<"'temperature'=", str(locals["temperature"]), ";", strOfFloat(warn),
      ";", strOfFloat(crit), ";; ">>

\* the state machine and the function main agree on how a run ends
MainAgrees ==
    Exited =>
        LET m == main(check, table, warn, crit)
            own == SubSeq(stdout, Len(stdout) - Len(m.lines) + 1, Len(stdout))
        IN  m.exc = exc /\ m.code = exitcode /\ m.lines = own

(* -------------------------------- claims ------------------------------- *)

\* C1: in the CPU check, with cpu_user, cpu_system and cpu_idle extracted,
\* the verdict is CRITICAL if cpu_user + cpu_system >= crit, else WARNING if
\* cpu_user + cpu_system >= warn, else OK, for every pair of (possibly
\* fractional, possibly inverted) thresholds; cpu_idle plays no part.
C1_CpuVerdictFollowsThresholds ==
    (check = "cpu" /\ Exited /\ AllExtracted) =>
        LET combined == locals["cpuload_user"] + locals["cpuload_system"]
        IN  IF GeFloat(combined, crit) THEN Reported("CRITICAL - ", 2)
            ELSE IF GeFloat(combined, warn) THEN Reported("WARNING - ", 1)
            ELSE Reported("OK - ", 0)

\* C2: in the system-health check, a hardware-state slot equal to 2 makes
\* the verdict CRITICAL (exit 2) with the slot's failure phrase in the text,
\* whatever the temperature, the thresholds and upgrade_available are.
C2_HardwareFailureIsCritical ==
    (check = "system" /\ Exited /\ AllExtracted) =>
        \A n \in HardwareNames :
            locals[n] = 2 =>
                /\ Reported("CRITICAL - ", 2)
                /\ Contains(LastLine, FailurePhrase(n))

\* C3: in the system-health check, with all six metrics extracted, no
\* hardware-state slot equal to 2 and temperature >= warn, the run ends in
\* exit_plugin with the line 'WARNING - ... | <temperature perfdata>' and
\* exit status 1.
C3_HotIsWarning ==
    (/\ check = "system" /\ Exited /\ AllExtracted
     /\ NoHardwareFailure
     /\ GeFloat(locals["temperature"], warn)) =>
        /\ Reported("WARNING - ", 1)
        /\ Len(LastLine) > Len(TemperaturePerfdata)
        /\ SubSeq(LastLine, Len(LastLine) - Len(TemperaturePerfdata) + 1,
                  Len(LastLine)) = TemperaturePerfdata

\* C4: when the walk returns an empty list the run ends at once: the line is
\* exactly 'UNKNOWN - No data returned via SNMP' without perfdata, the exit
\* status is 3, and neither the extraction loop nor a threshold comparison
\* has run.
C4_EmptyTableShortCircuits ==
    (Len(table) = 0 /\ pc \notin {"walk", "check"}) =>
        /\ Exited /\ exc = "" /\ exitcode = 3
        /\ Len(stdout) > 0
        /\ LastLine = <<"UNKNOWN - ", "No data returned via SNMP">>
        /\ ~InTrace("extract")
        /\ ~InTrace("compare")

C4_Witness ==
    Exited /\ Len(table) = 0 /\ ~iterOpen /\ exitcode = 3

\* C5: when the walk returns a non-empty list that lacks a metric the
\* evaluator requires, the run ends with the verdict UNKNOWN (exit 3).
C5_MissingMetricIsUnknown ==
    (/\ Exited /\ Len(table) > 0
     /\ InTrace("extract") /\ ~(Required \subseteq DOMAIN locals)) =>
        /\ Reported("UNKNOWN - ", 3)
        /\ ~InTrace("compare")

\* C6: when a step of the walk reports an error indication, the run ends
\* with exactly one verdict, UNKNOWN (exit 3), whatever was collected before.
C6_TransportErrorIsUnknown ==
    (Exited /\ InTrace("error_indication")) =>
        /\ Reported("UNKNOWN - ", 3)
        /\ Cardinality(StatusLines) = 1

\* C7: every call of exit_plugin passes "0", "1", "2" or "3", prints the
\* line of that severity ('| perfdata' for all but UNKNOWN) and ends the
\* process with exit status 0, 1, 2 or 3 respectively.
C7_ReporterMapping ==
    call # <<>> =>
        /\ Exited /\ exc = "" /\ Len(stdout) > 0
        /\ call[1] \in {"0", "1", "2", "3"}
        /\ call[1] = "0" =>
              /\ LastLine = <<"OK - ">> \o call[2] \o <<" | ">> \o call[3]
              /\ exitcode = 0
        /\ call[1] = "1" =>
              /\ LastLine = <<"WARNING - ">> \o call[2] \o <<" | ">> \o call[3]
              /\ exitcode = 1
        /\ call[1] = "2" =>
              /\ LastLine = <<"CRITICAL - ">> \o call[2] \o <<" | ">> \o call[3]
              /\ exitcode = 2
        /\ call[1] = "3" =>
              /\ LastLine = <<"UNKNOWN - ">> \o call[2]
              /\ exitcode = 3
        /\ Contains(LastLine, " | ") = (call[1] # "3")

C7_Witness ==
    /\ check = "system" /\ Exited /\ call # <<>>
    /\ call[1] = "1" /\ exitcode = 1
    /\ Head(LastLine) = "WARNING - "

\* C8 as stated: in the system-health check, no hardware-state slot equal to
\* 2, upgrade_available = 0 and temperature below warn give the verdict OK
\* with the text exactly 'System is OK.'; and an OK verdict always has
\* exactly that text.
C8_HealthyIsOK ==
    /\ (/\ check = "system" /\ Exited /\ AllExtracted
        /\ NoHardwareFailure
        /\ locals["upgradeAvailable"] = 0
        /\ ~GeFloat(locals["temperature"], warn)) =>
            /\ Reported("OK - ", 0)
            /\ output = <<"System is OK.">>
    /\ (check = "system" /\ Reported("OK - ", 0)) =>
            output = <<"System is OK.">>

\* C8 amended: as C8 with the temperature below warn and below crit.  The
\* line of an OK verdict is 'OK - System is OK. | <perfdata>'.
C8_HealthyBelowBothIsOK ==
    /\ (/\ check = "system" /\ Exited /\ AllExtracted
        /\ NoHardwareFailure
        /\ locals["upgradeAvailable"] = 0
        /\ ~GeFloat(locals["temperature"], warn)
        /\ ~GeFloat(locals["temperature"], crit)) =>
            /\ Reported("OK - ", 0)
            /\ output = <<"System is OK.">>
    /\ (check = "system" /\ Reported("OK - ", 0)) =>
            /\ output = <<"System is OK.">>
            /\ LastLine = <<"OK - ", "System is OK.", " | ">> \o perfdata

C8_Witness ==
    /\ check = "system" /\ Reported("OK - ", 0) /\ AllExtracted
    /\ NoHardwareFailure /\ locals["upgradeAvailable"] = 0
    /\ warn > crit

\* the object identifiers the extraction loop of each check tests for
ExpectedOids ==
    IF check = "cpu"
    THEN {"1.3.6.1.4.1.2021.11.9.0", "1.3.6.1.4.1.2021.11.10.0",
          "1.3.6.1.4.1.2021.11.11.0"}
    ELSE {"1.3.6.1.4.1.6574.1.1.0", "1.3.6.1.4.1.6574.1.2.0",
          "1.3.6.1.4.1.6574.1.3.0", "1.3.6.1.4.1.6574.1.4.1.0",
          "1.3.6.1.4.1.6574.1.4.2.0", "1.3.6.1.4.1.6574.1.5.4.0"}

\* entries under other identifiers: an extension and a prefix of an expected
\* identifier, and an unrelated object with a non-numeric value
ForeignEntries ==
    IF check = "cpu"
    THEN {<<"1.3.6.1.4.1.2021.11.9.0.1", "2">>,
          <<"1.3.6.1.4.1.2021.11.9", "2">>,
          <<"1.3.6.1.4.1.2021.11.2.0", "systemStats">>}
    ELSE {<<"1.3.6.1.4.1.6574.1.1.0.1", "2">>,
          <<"1.3.6.1.4.1.6574.1.1", "2">>,
          <<"1.3.6.1.4.1.6574.1.5.1.0", "DS">>}

InsertAt(seq, p, e) == SubSeq(seq, 1, p - 1) \o <<e>> \o SubSeq(seq, p, Len(seq))

RemoveAt(seq, p) == SubSeq(seq, 1, p - 1) \o SubSeq(seq, p + 1, Len(seq))

\* the tables got from tbl by inserting or removing one foreign entry
Modified(tbl) ==
    {InsertAt(tbl, p, e) : p \in 1..(Len(tbl) + 1), e \in ForeignEntries}
    \cup {RemoveAt(tbl, p) :
            p \in {q \in DOMAIN tbl : tbl[q][1] \notin ExpectedOids}}

\* how a run without walk errors ended: what main() printed, the exit
\* status, the uncaught exception
Outcome == [exc |-> exc, lines |-> stdout, code |-> exitcode]

\* C9 as stated: inserting or removing an entry whose identifier is not an
\* expected one, at any position, leaves the extracted metrics and the
\* outcome of the run (verdict, text, perfdata) unchanged.
C9_ForeignEntriesChangeNothing ==
    (Exited /\ iterOpen) =>
        \A tbl \in Modified(table) :
            /\ Extract(check, tbl).locals = locals
            /\ main(check, tbl, warn, crit) = Outcome

\* C9 amended: the extracted metrics are unchanged always; the outcome of the
\* run is unchanged when the list is non-empty before and after the change.
C9_ForeignEntriesKeepMetrics ==
    (Exited /\ iterOpen) =>
        \A tbl \in Modified(table) :
            /\ Extract(check, tbl).locals = locals
            /\ (Len(table) > 0 /\ Len(tbl) > 0) =>
                   main(check, tbl, warn, crit) = Outcome

C9_Witness ==
    /\ check = "cpu" /\ iterOpen /\ Reported("WARNING - ", 1) /\ AllExtracted
    /\ \E p \in DOMAIN table : table[p][1] = "1.3.6.1.4.1.2021.11.9.0.1"
    /\ locals["cpuload_user"] # 2

\* C10: in the system-health check with warn < crit the elif arm
\* 'temperature >= crit' is never entered, and a CRITICAL verdict never
\* comes without a hardware-state slot equal to 2.
C10_CritArmShadowed ==
    (check = "system" /\ warn < crit) =>
        /\ arm # "crit"
        /\ (Reported("CRITICAL - ", 2) /\ AllExtracted) =>
               \E n \in HardwareNames : locals[n] = 2

C10_Witness ==
    /\ check = "system" /\ warn < crit
    /\ AllExtracted /\ InTrace("compare")
    /\ GeFloat(locals["temperature"], crit)
    /\ arm = "warn"

\* the elif arm is entered when the thresholds are inverted
C10_CritArmEntered ==
    check = "system" /\ crit < warn /\ arm = "crit"

====
